---------------------------- MODULE Spec2Model ----------------------------
(***************************************************************************)
(* The container executor of flow-agent-x (executor/docker_executor.go):   *)
(* Init and Start of DockerExecutor, one action per runtime call, run      *)
(* against a container runtime whose calls may fail and a job context      *)
(* that may be cancelled or expire at any time.                            *)
(*                                                                         *)
(* BaseExecutor (toStartStatus, toFinishStatus, toTimeOutStatus,           *)
(* toKilledStatus, toErrorStatus, IsFinishStatus, writeLog, closeChannels) *)
(* is not part of the source files at hand; it is modelled from its call   *)
(* sites and from the specification's transition rules.                    *)
(***************************************************************************)
EXTENDS Integers, Sequences, FiniteSets, TLC

VARIABLES
    pc,          \* position of the goroutine that runs Init and then Start
    inCmd,       \* the CmdIn descriptor (immutable once accepted)
    d,           \* DockerExecutor fields: cli, context, containerId, flowVolume, hasConfig, stdOutWg
    res,         \* d.CmdResult (domain.ExecutedCmd)
    job,         \* the job-scoped cancellation handle behind d.context
    containers,  \* container runtime: status of every container id
    exec,        \* container runtime: the exec session
    volumes,     \* container runtime: volumes whose name matches the job volume's name
    log,         \* log channel and the log writers started by writeLog
    local,       \* locals of Start: recovered panic value, exitCode, returned error
    h,           \* history: logical clock and what was called, for the properties
    fn           \* the helper functions run on their own: their inputs and results

vars == <<pc, inCmd, d, res, job, containers, exec, volumes, log, local, h, fn>>

---------------------------------------------------------------------------
(* Bounds of the model *)

MaxLogItems == 1
MaxPid == 1
MaxOtherVolumes == 1

(* Program constants *)

CmdExitCodeUnknow == -1
CmdExitCodeTimeOut == -100
CmdExitCodeKilled == -1
CmdExitCodeSuccess == 0
CmdNotFound == 127

CmdStatusPending == "PENDING"
CmdStatusRunning == "RUNNING"
CmdStatusSuccess == "SUCCESS"
CmdStatusException == "EXCEPTION"
CmdStatusKilled == "KILLED"
CmdStatusTimeout == "TIMEOUT"

FinishStatuses ==
    {CmdStatusSuccess, CmdStatusException, CmdStatusKilled, CmdStatusTimeout}

(* Values of the model *)

NoContainer == ""
HintId == "hint"
NewIds == {"new1"}
ContainerIds == {HintId} \cup NewIds

Canceled == "context.Canceled"
DeadlineExceeded == "context.DeadlineExceeded"
CtxErrors == {Canceled, DeadlineExceeded}
NotFound == "No such container"
ExitCodes == {CmdExitCodeSuccess, CmdNotFound}
Pids == 1..MaxPid

---------------------------------------------------------------------------
(* The container runtime client and the context package *)

\* ctx.Err() of d.context: the background context never ends, the job's
\* context reports how it ended.
CtxErr(c) ==
    IF c = "job" /\ job = "canceled" THEN Canceled
    ELSE IF c = "job" /\ job = "deadline" THEN DeadlineExceeded
    ELSE "nil"

\* The errors a runtime call made with context c may return: the context's
\* error once it has ended, otherwise success or the call's own failure.
Call(c, name) ==
    IF CtxErr(c) # "nil" THEN {CtxErr(c)} ELSE {"nil", name}

\* cli.ContainerInspect: additionally "No such container" for an absent id.
InspectErr(c, id) ==
    IF CtxErr(c) # "nil" THEN {CtxErr(c)}
    ELSE IF containers[id] = "absent" THEN {NotFound}
    ELSE {"nil", "ContainerInspect"}

\* client.IsErrContainerNotFound
IsErrContainerNotFound(e) == e = NotFound

\* cli.ContainerExecInspect's answer
InspectRunning == exec.state = "running"
InspectExitCode == IF exec.state = "exited" THEN exec.code ELSE 0

---------------------------------------------------------------------------
(* BaseExecutor: the status transitions of d.CmdResult *)

IsFinishStatus(r) == r.status \in FinishStatuses

toStartStatus(r, pid, t) ==
    [r EXCEPT !.status = CmdStatusRunning, !.processId = pid, !.startAt = t + 1]

toFinishStatus(r, exitCode, t) ==
    [r EXCEPT !.finishAt = t + 1, !.code = exitCode, !.statusAt = t + 2,
              !.status = IF exitCode = CmdExitCodeSuccess
                         THEN CmdStatusSuccess ELSE CmdStatusException]

toTimeOutStatus(r, t) ==
    [r EXCEPT !.finishAt = t + 1, !.code = CmdExitCodeTimeOut,
              !.statusAt = t + 2, !.status = CmdStatusTimeout]

toKilledStatus(r, t) ==
    [r EXCEPT !.finishAt = t + 1, !.code = CmdExitCodeKilled,
              !.statusAt = t + 2, !.status = CmdStatusKilled]

toErrorStatus(r, err, t) ==
    [r EXCEPT !.finishAt = t + 1, !.error = err,
              !.statusAt = t + 2, !.status = CmdStatusException]

\* The history of one terminal transition: two ticks of the clock (finishAt,
\* then the status) and one more terminal write.
Published(hh) ==
    [hh EXCEPT !.clock = @ + 2, !.nTerminal = @ + 1]

\* History: the signals that arrived when the status was already final.
Signal(hh, s) ==
    IF IsFinishStatus(res) THEN [hh EXCEPT !.after = @ \cup {s}] ELSE hh

\* History: the first context error a runtime call of Start's body returned.
Observe(hh, e) ==
    IF e \in CtxErrors /\ hh.seen = "nil" THEN [hh EXCEPT !.seen = e] ELSE hh

---------------------------------------------------------------------------
(* Initial state: a new executor for an accepted CmdIn *)

CmdIns ==
    [ContainerId : {NoContainer, HintId},
     IsDeleteContainer : BOOLEAN,
     IsStopContainer : BOOLEAN,
     hasPluginDir : BOOLEAN]

Init ==
    /\ pc = "Init"
    /\ inCmd \in CmdIns
    /\ d = [cli |-> FALSE, context |-> "job", containerId |-> NoContainer,
            flowVolume |-> "none", hasConfig |-> FALSE, stdOutWg |-> 0]
    /\ res = [status |-> CmdStatusPending, code |-> CmdExitCodeUnknow,
              processId |-> 0, startAt |-> 0, finishAt |-> 0, statusAt |-> 0,
              error |-> "", containerId |-> NoContainer, output |-> FALSE]
    /\ job = "live"
    /\ containers \in {f \in [ContainerIds -> {"absent", "exited", "running"}] :
                          /\ \A id \in NewIds : f[id] = "absent"
                          /\ inCmd.ContainerId = NoContainer => f[HintId] = "absent"}
    /\ exec = [state |-> "none", code |-> 0, pid |-> 0, cid |-> NoContainer]
    /\ volumes \in [job : BOOLEAN, others : 0..MaxOtherVolumes]
    /\ log = [closed |-> FALSE, count |-> 0, writers |-> {}]
    /\ local = [err |-> "nil", exitCode |-> 0, out |-> "unset"]
    /\ h = [clock |-> 0, nTerminal |-> 0, seen |-> "nil", closes |-> 0,
            closedAt |-> 0, late |-> FALSE, cleanup |-> <<>>, pulls |-> 0,
            created |-> {}, resumed |-> FALSE, removed |-> {},
            volumeCreates |-> 0, inspected |-> "none", after |-> {},
            removeCalls |-> {}, copied |-> FALSE, exported |-> FALSE,
            hadJobVolume |-> volumes.job]
    /\ fn = [op |-> "none"]

---------------------------------------------------------------------------
(* The environment of the executor *)

\* Kill(): the job handle is cancelled.
Kill ==
    /\ job = "live"
    /\ pc # "done"
    /\ job' = "canceled"
    /\ h' = Signal(h, "kill")
    /\ UNCHANGED <<pc, inCmd, d, res, containers, exec, volumes, log, local, fn>>

\* The deadline of the job's context passes.
Deadline ==
    /\ job = "live"
    /\ pc # "done"
    /\ job' = "deadline"
    /\ h' = Signal(h, "deadline")
    /\ UNCHANGED <<pc, inCmd, d, res, containers, exec, volumes, log, local, fn>>

\* The interpreter of the exec session exits with some code.
ExecExit ==
    /\ exec.state = "running"
    /\ \E c \in ExitCodes : exec' = [exec EXCEPT !.state = "exited", !.code = c]
    /\ h' = Signal(h, "exit")
    /\ UNCHANGED <<pc, inCmd, d, res, job, containers, volumes, log, local, fn>>

---------------------------------------------------------------------------
(* DockerExecutor.Init *)

\* client.NewEnvClient, then initJobVolume's getVolume(name): VolumeList
\* filtered by name; found only when exactly one volume is listed.
InitClient ==
    /\ pc = "Init"
    /\ \E e \in {"nil", "NewEnvClient"} :
         IF e # "nil"
         THEN /\ pc' = "InitFailed"
              /\ d' = d
         ELSE /\ pc' = "initJobVolume"
              /\ d' = [d EXCEPT !.cli = TRUE]
    /\ UNCHANGED <<inCmd, res, job, containers, exec, volumes, log, local, h, fn>>

VolumeListLen == (IF volumes.job THEN 1 ELSE 0) + volumes.others

getVolume == VolumeListLen = 1

initJobVolume ==
    /\ pc = "initJobVolume"
    /\ \E e \in Call(d.context, "VolumeList") :
         IF e # "nil"
         THEN /\ pc' = "InitFailed"
              /\ UNCHANGED <<d, volumes, h>>
         ELSE IF getVolume
         THEN /\ pc' = "initConfig"
              /\ d' = [d EXCEPT !.flowVolume = IF volumes.job THEN "job" ELSE "other"]
              /\ UNCHANGED <<volumes, h>>
         ELSE \E c \in Call(d.context, "VolumeCreate") :
                IF c # "nil"
                THEN /\ pc' = "InitFailed"
                     /\ h' = [h EXCEPT !.volumeCreates = @ + 1]
                     /\ UNCHANGED <<d, volumes>>
                ELSE /\ pc' = "initConfig"
                     /\ d' = [d EXCEPT !.flowVolume = "job"]
                     /\ volumes' = [volumes EXCEPT !.job = TRUE]
                     /\ h' = [h EXCEPT !.volumeCreates = @ + 1]
    /\ UNCHANGED <<inCmd, res, job, containers, exec, log, local, fn>>

\* initConfig: nat.ParsePortSpecs may fail; otherwise the configs are built.
initConfig ==
    /\ pc = "initConfig"
    /\ \E e \in {"nil", "ParsePortSpecs"} :
         IF e # "nil"
         THEN /\ pc' = "InitFailed"
              /\ d' = d
         ELSE /\ pc' = "Start"
              /\ d' = [d EXCEPT !.hasConfig = TRUE]
    /\ UNCHANGED <<inCmd, res, job, containers, exec, volumes, log, local, h, fn>>

---------------------------------------------------------------------------
(* DockerExecutor.Start: the deferred function *)

\* Mutant: the channels are closed first, before the recovered error is
\* turned into a status.
DeferOrder_closeFirst == <<"closeChannels", "recover", "cleanupContainer">>

\* The statements of Start's deferred function, in the order they run:
\* recover and handleErrors, cleanupContainer, closeChannels.
DeferOrder == <<"recover", "cleanupContainer", "closeChannels">>

DeferEntry == DeferOrder[1]

DeferAfter(step) ==
    LET i == CHOOSE k \in 1..Len(DeferOrder) : DeferOrder[k] = step
    IN  IF i = Len(DeferOrder) THEN "done" ELSE DeferOrder[i + 1]

\* util.PanicIfErr(err) with a non-nil err: the body of Start is left for
\* the deferred function, which recovers err.
PanicIfErr(e) ==
    /\ pc' = DeferEntry
    /\ local' = [local EXCEPT !.err = e]

\* Mutant: the cancel branch lacks its return and falls through to the
\* error branch.
handleErrors_noReturn ==
    IF local.err = DeadlineExceeded
    THEN /\ res' = toTimeOutStatus(res, h.clock)
         /\ d' = [d EXCEPT !.context = "background"]
         /\ local' = [local EXCEPT !.out = "nil"]
         /\ h' = Published(h)
    ELSE IF local.err = Canceled
    THEN /\ res' = toErrorStatus(toKilledStatus(res, h.clock), local.err, h.clock + 2)
         /\ d' = [d EXCEPT !.context = "background"]
         /\ local' = [local EXCEPT !.out = local.err]
         /\ h' = Published(Published(h))
    ELSE /\ res' = toErrorStatus(res, local.err, h.clock)
         /\ d' = d
         /\ local' = [local EXCEPT !.out = local.err]
         /\ h' = Published(h)

\* Mutant: an error that is neither deadline nor cancel is returned without
\* being recorded in the result.
handleErrors_noRecord ==
    IF local.err = DeadlineExceeded
    THEN /\ res' = toTimeOutStatus(res, h.clock)
         /\ d' = [d EXCEPT !.context = "background"]
         /\ local' = [local EXCEPT !.out = "nil"]
         /\ h' = Published(h)
    ELSE IF local.err = Canceled
    THEN /\ res' = toKilledStatus(res, h.clock)
         /\ d' = [d EXCEPT !.context = "background"]
         /\ local' = [local EXCEPT !.out = "nil"]
         /\ h' = Published(h)
    ELSE /\ res' = res
         /\ d' = d
         /\ local' = [local EXCEPT !.out = local.err]
         /\ h' = h

\* Mutant: the deadline and cancel branches record each other's status.
handleErrors_swapped ==
    IF local.err = DeadlineExceeded
    THEN /\ res' = toKilledStatus(res, h.clock)
         /\ d' = [d EXCEPT !.context = "background"]
         /\ local' = [local EXCEPT !.out = "nil"]
         /\ h' = Published(h)
    ELSE IF local.err = Canceled
    THEN /\ res' = toTimeOutStatus(res, h.clock)
         /\ d' = [d EXCEPT !.context = "background"]
         /\ local' = [local EXCEPT !.out = "nil"]
         /\ h' = Published(h)
    ELSE /\ res' = toErrorStatus(res, local.err, h.clock)
         /\ d' = d
         /\ local' = [local EXCEPT !.out = local.err]
         /\ h' = Published(h)

\* handleErrors(err): deadline -> Timeout, cancel -> Killed, both with the
\* context reset and nil returned; any other error -> Exception, returned.
handleErrors ==
    IF local.err = DeadlineExceeded
    THEN /\ res' = toTimeOutStatus(res, h.clock)
         /\ d' = [d EXCEPT !.context = "background"]
         /\ local' = [local EXCEPT !.out = "nil"]
         /\ h' = Published(h)
    ELSE IF local.err = Canceled
    THEN /\ res' = toKilledStatus(res, h.clock)
         /\ d' = [d EXCEPT !.context = "background"]
         /\ local' = [local EXCEPT !.out = "nil"]
         /\ h' = Published(h)
    ELSE /\ res' = toErrorStatus(res, local.err, h.clock)
         /\ d' = d
         /\ local' = [local EXCEPT !.out = local.err]
         /\ h' = Published(h)

\* if err := recover(); err != nil { out = d.handleErrors(err.(error)) }
recover ==
    /\ pc = "recover"
    /\ pc' = DeferAfter("recover")
    /\ IF local.err # "nil" THEN handleErrors ELSE UNCHANGED <<res, d, local, h>>
    /\ UNCHANGED <<inCmd, job, containers, exec, volumes, log, fn>>

\* The runtime's answer to a remove or stop of container id.
CleanupErr(c, id, name) ==
    IF CtxErr(c) # "nil" THEN {CtxErr(c)}
    ELSE IF id = NoContainer \/ containers[id] = "absent" THEN {NotFound}
    ELSE {"nil", name}

\* The runtime after a container stopped or went away: its exec session ends.
ExecAfterStop(id) ==
    IF exec.cid = id /\ exec.state \in {"created", "running"}
    THEN [exec EXCEPT !.state = "killed"] ELSE exec

\* Mutant: a failed cleanup call is recorded as the job's error.
cleanupContainer_recordError ==
    IF inCmd.IsDeleteContainer \/ inCmd.IsStopContainer
    THEN LET op == IF inCmd.IsDeleteContainer THEN "remove" ELSE "stop"
             name == IF inCmd.IsDeleteContainer THEN "ContainerRemove" ELSE "ContainerStop"
         IN  \E e \in CleanupErr(d.context, d.containerId, name) :
               IF e = "nil"
               THEN /\ h' = [h EXCEPT !.cleanup = Append(@,
                           [op |-> op, id |-> d.containerId, ctx |-> CtxErr(d.context)])]
                    /\ containers' = [containers EXCEPT ![d.containerId] =
                           IF op = "remove" THEN "absent" ELSE "exited"]
                    /\ exec' = ExecAfterStop(d.containerId)
                    /\ res' = res
               ELSE /\ h' = [Published(h) EXCEPT !.cleanup = Append(@,
                           [op |-> op, id |-> d.containerId, ctx |-> CtxErr(d.context)])]
                    /\ res' = toErrorStatus(res, e, h.clock)
                    /\ UNCHANGED <<containers, exec>>
    ELSE UNCHANGED <<h, containers, exec, res>>

\* Mutant: the two policy branches are swapped, stop is tried first.
cleanupContainer_stopFirst ==
    IF inCmd.IsStopContainer
    THEN \E e \in CleanupErr(d.context, d.containerId, "ContainerStop") :
           /\ h' = [h EXCEPT !.cleanup = Append(@,
                      [op |-> "stop", id |-> d.containerId, ctx |-> CtxErr(d.context)])]
           /\ IF e = "nil"
              THEN /\ containers' = [containers EXCEPT ![d.containerId] = "exited"]
                   /\ exec' = ExecAfterStop(d.containerId)
              ELSE UNCHANGED <<containers, exec>>
           /\ UNCHANGED res
    ELSE IF inCmd.IsDeleteContainer
    THEN \E e \in CleanupErr(d.context, d.containerId, "ContainerRemove") :
           /\ h' = [h EXCEPT !.cleanup = Append(@,
                      [op |-> "remove", id |-> d.containerId, ctx |-> CtxErr(d.context)])]
           /\ IF e = "nil"
              THEN /\ containers' = [containers EXCEPT ![d.containerId] = "absent"]
                   /\ exec' = ExecAfterStop(d.containerId)
              ELSE UNCHANGED <<containers, exec>>
           /\ UNCHANGED res
    ELSE UNCHANGED <<h, containers, exec, res>>

\* cleanupContainer: force-remove when IsDeleteContainer, else stop when
\* IsStopContainer, else nothing; an error is logged only.
cleanupContainer ==
    IF inCmd.IsDeleteContainer
    THEN \E e \in CleanupErr(d.context, d.containerId, "ContainerRemove") :
           /\ h' = [h EXCEPT !.cleanup = Append(@,
                      [op |-> "remove", id |-> d.containerId, ctx |-> CtxErr(d.context)])]
           /\ IF e = "nil"
              THEN /\ containers' = [containers EXCEPT ![d.containerId] = "absent"]
                   /\ exec' = ExecAfterStop(d.containerId)
              ELSE UNCHANGED <<containers, exec>>
           /\ UNCHANGED res
    ELSE IF inCmd.IsStopContainer
    THEN \E e \in CleanupErr(d.context, d.containerId, "ContainerStop") :
           /\ h' = [h EXCEPT !.cleanup = Append(@,
                      [op |-> "stop", id |-> d.containerId, ctx |-> CtxErr(d.context)])]
           /\ IF e = "nil"
              THEN /\ containers' = [containers EXCEPT ![d.containerId] = "exited"]
                   /\ exec' = ExecAfterStop(d.containerId)
              ELSE UNCHANGED <<containers, exec>>
           /\ UNCHANGED res
    ELSE UNCHANGED <<h, containers, exec, res>>

\* if d.cli != nil { d.cleanupContainer() }
cleanup ==
    /\ pc = "cleanupContainer"
    /\ pc' = DeferAfter("cleanupContainer")
    /\ IF d.cli THEN cleanupContainer ELSE UNCHANGED <<h, containers, exec, res>>
    /\ UNCHANGED <<inCmd, d, job, volumes, log, local, fn>>

\* BaseExecutor.closeChannels: waits for the log writers registered on
\* stdOutWg, then closes the log channel.
closeChannels ==
    /\ pc = "closeChannels"
    /\ d.stdOutWg = 0
    /\ pc' = DeferAfter("closeChannels")
    /\ log' = [log EXCEPT !.closed = TRUE]
    /\ h' = [h EXCEPT !.clock = @ + 1, !.closedAt = h.clock + 1, !.closes = @ + 1]
    /\ UNCHANGED <<inCmd, d, res, job, containers, exec, volumes, local, fn>>

---------------------------------------------------------------------------
(* BaseExecutor: the log writers *)

\* writeLog(reader): one more goroutine copying the reader's lines to the
\* log channel; it leaves the wait group when the reader ends.
writeLog(l, w) == [l EXCEPT !.writers = @ \cup {w}]

\* The reader of writer w has ended: the pull's progress at any time, the
\* exec session's output once the session no longer runs.
ReaderEnded(w) == w = "pull" \/ exec.state # "running"

WriterEmit ==
    /\ \E w \in log.writers :
         /\ log.count < MaxLogItems
         /\ log' = [log EXCEPT !.count = @ + 1]
         /\ h' = [h EXCEPT !.late = @ \/ log.closed]
    /\ UNCHANGED <<pc, inCmd, d, res, job, containers, exec, volumes, local, fn>>

WriterDone ==
    /\ \E w \in log.writers :
         /\ ReaderEnded(w)
         /\ log' = [log EXCEPT !.writers = @ \ {w}]
         /\ d' = [d EXCEPT !.stdOutWg = @ - 1]
    /\ UNCHANGED <<pc, inCmd, res, job, containers, exec, volumes, local, h, fn>>

---------------------------------------------------------------------------
(* DockerExecutor.Start: the body *)

\* d.stdOutWg.Add(2): one for pull image output, and one for cmd output
Start ==
    /\ pc = "Start"
    /\ pc' = "pullImage"
    /\ d' = [d EXCEPT !.stdOutWg = @ + 2]
    /\ UNCHANGED <<inCmd, res, job, containers, exec, volumes, log, local, h, fn>>

pullImage ==
    /\ pc = "pullImage"
    /\ \E e \in Call(d.context, "ImagePull") :
         /\ h' = [Observe(h, e) EXCEPT !.pulls = @ + 1]
         /\ IF e # "nil"
            THEN PanicIfErr(e) /\ log' = log
            ELSE /\ pc' = "tryToResume"
                 /\ log' = writeLog(log, "pull")
                 /\ local' = local
    /\ UNCHANGED <<inCmd, d, res, job, containers, exec, volumes, fn>>

\* tryToResume up to the restart: no hint, hint not found, or hint not
\* exited -> false (fresh creation); an unexpected inspect error panics.
tryToResume ==
    /\ pc = "tryToResume"
    /\ IF inCmd.ContainerId = NoContainer
       THEN /\ pc' = "ContainerCreate"
            /\ UNCHANGED <<local, h>>
       ELSE \E e \in InspectErr(d.context, inCmd.ContainerId) :
              IF IsErrContainerNotFound(e)
              THEN /\ pc' = "ContainerCreate"
                   /\ h' = [Observe(h, e) EXCEPT !.inspected = "absent"]
                   /\ local' = local
              ELSE IF e # "nil"
              THEN /\ PanicIfErr(e)
                   /\ h' = Observe(h, e)
              ELSE /\ h' = [h EXCEPT !.inspected = containers[inCmd.ContainerId]]
                   /\ local' = local
                   /\ pc' = IF containers[inCmd.ContainerId] # "exited"
                            THEN "ContainerCreate" ELSE "ContainerRestart"
    /\ UNCHANGED <<inCmd, d, res, job, containers, exec, volumes, log, fn>>

\* Mutant: the hinted container is adopted before the restart's error is
\* looked at.
tryToResumeRestart_adoptFirst ==
    /\ pc = "ContainerRestart"
    /\ \E e \in Call(d.context, "ContainerRestart") :
         /\ d' = [d EXCEPT !.containerId = inCmd.ContainerId]
         /\ res' = [res EXCEPT !.containerId = inCmd.ContainerId]
         /\ IF e = "nil"
            THEN /\ containers' = [containers EXCEPT ![inCmd.ContainerId] = "running"]
                 /\ h' = [h EXCEPT !.resumed = TRUE]
                 /\ pc' = "copyPlugins"
            ELSE /\ h' = Observe(h, e)
                 /\ pc' = "ContainerRemove"
                 /\ UNCHANGED containers
    /\ UNCHANGED <<inCmd, job, exec, volumes, log, local, fn>>

\* tryToResume: ContainerRestart; on success adopt the hinted container.
tryToResumeRestart ==
    /\ pc = "ContainerRestart"
    /\ \E e \in Call(d.context, "ContainerRestart") :
         /\ IF e = "nil"
            THEN /\ containers' = [containers EXCEPT ![inCmd.ContainerId] = "running"]
                 /\ d' = [d EXCEPT !.containerId = inCmd.ContainerId]
                 /\ res' = [res EXCEPT !.containerId = inCmd.ContainerId]
                 /\ h' = [h EXCEPT !.resumed = TRUE]
                 /\ pc' = "copyPlugins"
            ELSE /\ h' = Observe(h, e)
                 /\ pc' = "ContainerRemove"
                 /\ UNCHANGED <<containers, d, res>>
    /\ UNCHANGED <<inCmd, job, exec, volumes, log, local, fn>>

\* tryToResume: delete container that cannot resume; the error is dropped.
tryToResumeRemove ==
    /\ pc = "ContainerRemove"
    /\ \E e \in Call(d.context, "ContainerRemove") :
         /\ IF e = "nil"
            THEN /\ containers' = [containers EXCEPT ![inCmd.ContainerId] = "absent"]
                 /\ h' = [h EXCEPT !.removed = @ \cup {inCmd.ContainerId},
                                   !.removeCalls = @ \cup {inCmd.ContainerId}]
            ELSE /\ containers' = containers
                 /\ h' = [Observe(h, e) EXCEPT !.removeCalls = @ \cup {inCmd.ContainerId}]
         /\ pc' = "ContainerCreate"
    /\ UNCHANGED <<inCmd, d, res, job, exec, volumes, log, local, fn>>

\* The ids the runtime may give a new container: never one it has handed
\* out before (HintId is an id of an earlier job's container).
FreshIds == {id \in NewIds : containers[id] = "absent" /\ id \notin h.created}

\* startContainer: ContainerCreate, and the new id recorded.
startContainerCreate ==
    /\ pc = "ContainerCreate"
    /\ \E e \in Call(d.context, "ContainerCreate") :
         IF e # "nil"
         THEN /\ PanicIfErr(e)
              /\ h' = Observe(h, e)
              /\ UNCHANGED <<containers, d, res>>
         ELSE \E cid \in FreshIds :
                /\ containers' = [containers EXCEPT ![cid] = "created"]
                /\ d' = [d EXCEPT !.containerId = cid]
                /\ res' = [res EXCEPT !.containerId = cid]
                /\ h' = [h EXCEPT !.created = @ \cup {cid}]
                /\ pc' = "ContainerStart"
                /\ local' = local
    /\ UNCHANGED <<inCmd, job, exec, volumes, log, fn>>

\* startContainer: ContainerStart of the created container.
startContainerStart ==
    /\ pc = "ContainerStart"
    /\ \E e \in Call(d.context, "ContainerStart") :
         /\ h' = Observe(h, e)
         /\ IF e # "nil"
            THEN PanicIfErr(e) /\ containers' = containers
            ELSE /\ containers' = [containers EXCEPT ![d.containerId] = "running"]
                 /\ pc' = "copyPlugins"
                 /\ local' = local
    /\ UNCHANGED <<inCmd, d, res, job, exec, volumes, log, fn>>

\* copyPlugins: with a plugin dir, tar it and copy it into the container.
copyPlugins ==
    /\ pc = "copyPlugins"
    /\ IF ~inCmd.hasPluginDir
       THEN /\ pc' = "runCmdInContainer"
            /\ UNCHANGED <<local, h>>
       ELSE \E t \in {"nil", "tarArchiveFromPath"} :
              IF t # "nil"
              THEN PanicIfErr(t) /\ h' = h
              ELSE \E e \in Call(d.context, "CopyToContainer") :
                     /\ h' = [Observe(h, e) EXCEPT !.copied = (e = "nil")]
                     /\ IF e # "nil"
                        THEN PanicIfErr(e)
                        ELSE pc' = "runCmdInContainer" /\ local' = local
    /\ UNCHANGED <<inCmd, d, res, job, containers, exec, volumes, log, fn>>

\* runCmdInContainer: ContainerExecCreate in d.containerId.
runCmdInContainer ==
    /\ pc = "runCmdInContainer"
    /\ \E e \in Call(d.context, "ContainerExecCreate") :
         /\ h' = Observe(h, e)
         /\ IF e # "nil"
            THEN PanicIfErr(e) /\ exec' = exec
            ELSE /\ exec' = [exec EXCEPT !.state = "created", !.cid = d.containerId]
                 /\ pc' = "ContainerExecAttach"
                 /\ local' = local
    /\ UNCHANGED <<inCmd, d, res, job, containers, volumes, log, fn>>

\* runCmdInContainer: ContainerExecAttach starts the session; its output
\* goes to writeLog and the scripts to writeCmd.
runCmdInContainerAttach ==
    /\ pc = "ContainerExecAttach"
    /\ \E e \in Call(d.context, "ContainerExecAttach") :
         /\ h' = Observe(h, e)
         /\ IF e # "nil"
            THEN PanicIfErr(e) /\ UNCHANGED <<exec, log>>
            ELSE /\ \E p \in Pids : exec' = [exec EXCEPT !.state = "running", !.pid = p]
                 /\ log' = writeLog(log, "exec")
                 /\ pc' = "waitForExit"
                 /\ local' = local
    /\ UNCHANGED <<inCmd, d, res, job, containers, volumes, fn>>

\* waitForExit: the first ContainerExecInspect, then toStartStatus(inspect.Pid).
waitForExit ==
    /\ pc = "waitForExit"
    /\ \E e \in Call(d.context, "ContainerExecInspect") :
         IF e # "nil"
         THEN /\ PanicIfErr(e)
              /\ h' = Observe(h, e)
              /\ res' = res
         ELSE /\ res' = toStartStatus(res, exec.pid, h.clock)
              /\ h' = [h EXCEPT !.clock = @ + 1]
              /\ pc' = "waitLoop"
              /\ local' = local
    /\ UNCHANGED <<inCmd, d, job, containers, exec, volumes, log, fn>>

\* Mutant: the inspected exit code is dropped and success is returned.
waitForExitCode_dropped == CmdExitCodeSuccess

\* waitForExit: the exit code Start gets, taken from the inspection that
\* reported the session not running.
waitForExitCode == InspectExitCode

\* Mutant: the loop's test is inverted, it is left while the session runs.
waitLoop_inverted ==
    /\ pc = "waitLoop"
    /\ \E e \in Call(d.context, "ContainerExecInspect") :
         /\ h' = Observe(h, e)
         /\ IF e # "nil"
            THEN PanicIfErr(e)
            ELSE IF ~InspectRunning
            THEN UNCHANGED <<pc, local>>
            ELSE /\ pc' = "exportEnv"
                 /\ local' = [local EXCEPT !.exitCode = waitForExitCode]
    /\ UNCHANGED <<inCmd, d, res, job, containers, exec, volumes, log, fn>>

\* waitForExit: one round of the polling loop.
waitLoop ==
    /\ pc = "waitLoop"
    /\ \E e \in Call(d.context, "ContainerExecInspect") :
         /\ h' = Observe(h, e)
         /\ IF e # "nil"
            THEN PanicIfErr(e)
            ELSE IF InspectRunning
            THEN UNCHANGED <<pc, local>>
            ELSE /\ pc' = "exportEnv"
                 /\ local' = [local EXCEPT !.exitCode = waitForExitCode]
    /\ UNCHANGED <<inCmd, d, res, job, containers, exec, volumes, log, fn>>

\* exportEnv: copy the env file out of the container; on an error return.
exportEnv ==
    /\ pc = "exportEnv"
    /\ \E e \in Call(d.context, "CopyFromContainer") :
         /\ h' = [Observe(h, e) EXCEPT !.exported = TRUE]
         /\ res' = IF e # "nil" THEN res ELSE [res EXCEPT !.output = TRUE]
    /\ pc' = "finish"
    /\ UNCHANGED <<inCmd, d, job, containers, exec, volumes, log, local, fn>>

\* The end of Start's body: return nil when the status is already final,
\* otherwise toFinishStatus(exitCode) and return.
finish ==
    /\ pc = "finish"
    /\ pc' = DeferEntry
    /\ IF IsFinishStatus(res)
       THEN /\ local' = [local EXCEPT !.out = "nil"]
            /\ UNCHANGED <<res, h>>
       ELSE /\ res' = toFinishStatus(res, local.exitCode, h.clock)
            /\ h' = Published(h)
            /\ local' = [local EXCEPT !.out = "nil"]
    /\ UNCHANGED <<inCmd, d, job, containers, exec, volumes, log, fn>>

---------------------------------------------------------------------------
(* The specification *)

Next ==
    \/ InitClient \/ initJobVolume \/ initConfig
    \/ Start \/ pullImage
    \/ tryToResume \/ tryToResumeRestart \/ tryToResumeRemove
    \/ startContainerCreate \/ startContainerStart
    \/ copyPlugins \/ runCmdInContainer \/ runCmdInContainerAttach
    \/ waitForExit \/ waitLoop \/ exportEnv \/ finish
    \/ recover \/ cleanup \/ closeChannels
    \/ WriterEmit \/ WriterDone
    \/ Kill \/ Deadline \/ ExecExit

Spec == Init /\ [][Next]_vars

---------------------------------------------------------------------------
(* The executor under fair scheduling: the goroutine of Init and Start     *)
(* takes its next step whenever it can, a log writer whose reader has      *)
(* ended leaves the wait group.  Nothing is assumed of the environment:    *)
(* the session need not exit, the job need not be cancelled.               *)

\* One job: the job volume exists, the command names an exited container
\* and has a plugin dir.
InitFair ==
    /\ Init
    /\ volumes = [job |-> TRUE, others |-> 0]
    /\ inCmd.ContainerId = HintId
    /\ inCmd.hasPluginDir
    /\ containers[HintId] = "exited"

ExecutorStep ==
    \/ InitClient \/ initJobVolume \/ initConfig
    \/ Start \/ pullImage
    \/ tryToResume \/ tryToResumeRestart \/ tryToResumeRemove
    \/ startContainerCreate \/ startContainerStart
    \/ copyPlugins \/ runCmdInContainer \/ runCmdInContainerAttach
    \/ waitForExit \/ waitLoop \/ exportEnv \/ finish
    \/ recover \/ cleanup \/ closeChannels

SpecFair ==
    /\ InitFair
    /\ [][Next]_vars
    /\ WF_vars(ExecutorStep)
    /\ WF_vars(WriterDone)

---------------------------------------------------------------------------
(* The environment extractor, run on its own: exportEnv's                  *)
(* readEnvFromReader(reader, d.inCmd.EnvFilters) over bounded env dumps.   *)
(* Strings are sequences of characters.                                    *)

MaxEnvLines == 3
MaxEnvFilters == 2

\* Lines of the env file written by "env > /tmp/.env": the variables of the
\* test command, a name shorter than the filter whose value holds a "=",
\* and a line that continues a multi-line value.
EnvLines ==
    {<<"F", "L", "O", "W", "_", "V", "V", "V", "=", "f", "l", "o", "w", "c", "i">>,
     <<"F", "L", "O", "W", "_", "A", "A", "A", "=", "f", "l", "o", "w", ".", ".", ".">>,
     <<"I", "N", "P", "U", "T", "_", "V", "A", "R", "=", "a", "a", "a">>,
     <<"F", "L", "O", "W", "=", "a", "=", "b">>,
     <<"b", "c", "d">>}

\* Key prefixes a CmdIn may carry in EnvFilters.
EnvPrefixes ==
    {<<"F", "L", "O", "W", "_">>,
     <<"I", "N", "P", "U", "T">>,
     <<"F", "L", "O", "W", "_", "A">>}

SeqsUpTo(S, n) == UNION {[1..k -> S] : k \in 0..n}

EnvDumps == SeqsUpTo(EnvLines, MaxEnvLines)

EnvFilterLists == SeqsUpTo(EnvPrefixes, MaxEnvFilters)

\* strings.HasPrefix
HasPrefix(str, prefix) ==
    Len(prefix) <= Len(str) /\ SubSeq(str, 1, Len(prefix)) = prefix

\* strings.Index(line, "="), counted from 1; 0 when the line has none.
IndexOfEqual(line) ==
    IF \E i \in 1..Len(line) : line[i] = "="
    THEN CHOOSE i \in 1..Len(line) :
             line[i] = "=" /\ \A j \in 1..(i - 1) : line[j] # "="
    ELSE 0

\* A key passes when there are no filters or it begins with one of them.
matchEnvFilter(key, filters) ==
    Len(filters) = 0 \/ \E i \in 1..Len(filters) : HasPrefix(key, filters[i])

\* readEnvFromReader: line by line, KEY=VALUE split at the first "=", kept
\* when the key passes the filters; a later line of the same key replaces
\* the earlier one.  The result is the mapping as a set of <<key, value>>.
RECURSIVE readEnvFromReader(_, _)
readEnvFromReader(lines, filters) ==
    IF Len(lines) = 0 THEN {}
    ELSE LET before == readEnvFromReader(SubSeq(lines, 1, Len(lines) - 1), filters)
             line == lines[Len(lines)]
             i == IndexOfEqual(line)
             key == SubSeq(line, 1, i - 1)
             val == SubSeq(line, i + 1, Len(line))
         IN  IF i = 0 \/ ~matchEnvFilter(key, filters)
             THEN before
             ELSE {kv \in before : kv[1] # key} \cup {<<key, val>>}

\* Mutant: the extractor is called without the command's filters.
exportEnvOutput_noFilters(reader, EnvFilters) == readEnvFromReader(reader, <<>>)

\* d.CmdResult.Output = readEnvFromReader(reader, d.inCmd.EnvFilters)
exportEnvOutput(reader, EnvFilters) == readEnvFromReader(reader, EnvFilters)

\* No executor runs beside the helper functions.
NoExecutor ==
    /\ pc = "none"
    /\ inCmd = [ContainerId |-> NoContainer, IsDeleteContainer |-> FALSE,
                IsStopContainer |-> FALSE, hasPluginDir |-> FALSE]
    /\ d = [cli |-> FALSE, context |-> "job", containerId |-> NoContainer,
            flowVolume |-> "none", hasConfig |-> FALSE, stdOutWg |-> 0]
    /\ res = [status |-> CmdStatusPending, code |-> CmdExitCodeUnknow,
              processId |-> 0, startAt |-> 0, finishAt |-> 0, statusAt |-> 0,
              error |-> "", containerId |-> NoContainer, output |-> FALSE]
    /\ job = "live"
    /\ containers = [id \in ContainerIds |-> "absent"]
    /\ exec = [state |-> "none", code |-> 0, pid |-> 0, cid |-> NoContainer]
    /\ volumes = [job |-> FALSE, others |-> 0]
    /\ log = [closed |-> FALSE, count |-> 0, writers |-> {}]
    /\ local = [err |-> "nil", exitCode |-> 0, out |-> "unset"]
    /\ h = [clock |-> 0]

executorVars == <<pc, inCmd, d, res, job, containers, exec, volumes, log, local, h>>

\* The env file of a finished session and the filters of its command.
InitEnv ==
    /\ NoExecutor
    /\ \E dump \in EnvDumps, filters \in EnvFilterLists :
         fn = [op |-> "exportEnv", reader |-> dump, EnvFilters |-> filters,
               copied |-> FALSE, Output |-> {}]

\* exportEnv after a successful CopyFromContainer.
exportEnvRead ==
    /\ fn.op = "exportEnv"
    /\ ~fn.copied
    /\ fn' = [fn EXCEPT !.copied = TRUE,
                        !.Output = exportEnvOutput(fn.reader, fn.EnvFilters)]
    /\ UNCHANGED executorVars

NextEnv == exportEnvRead

SpecEnv == InitEnv /\ [][NextEnv]_vars

---------------------------------------------------------------------------
(* The log pipeline, run on its own: the two stream readers of one job     *)
(* (stdout and stderr) numbering their lines with the job's shared,        *)
(* producer-synchronised counter and sending them to the log channel.      *)

MaxStreamLines == 2

LogStreams == {"stdout", "stderr"}

CmdIDs == {"1-1-1", "1-1-2"}

\* Mutant: the counter is not synchronised, a reader may number a line while
\* the other reader has numbered one it has not sent yet.
LogCounterFree_unsynchronised == TRUE

\* The counter's lock: no reader is between numbering a line and sending it.
LogCounterFree == fn.lock = "free"

\* A job's readers with the lines their streams will still deliver.
InitLog ==
    /\ NoExecutor
    /\ \E id \in CmdIDs, todo \in [LogStreams -> 0..MaxStreamLines] :
         fn = [op |-> "writeLog", CmdID |-> id, todo |-> todo, lock |-> "free",
               number |-> [w \in LogStreams |-> 0], LogSize |-> 0,
               LogChannel |-> <<>>]

\* A reader has a line: it takes the counter and the line's number.
writeLogNumber ==
    /\ fn.op = "writeLog"
    /\ \E w \in LogStreams :
         /\ fn.todo[w] > 0
         /\ fn.number[w] = 0
         /\ LogCounterFree
         /\ fn' = [fn EXCEPT !.lock = w, !.LogSize = @ + 1,
                             !.number[w] = fn.LogSize + 1]
    /\ UNCHANGED executorVars

\* The reader sends the numbered line as a LogItem and lets the counter go.
writeLogSend ==
    /\ fn.op = "writeLog"
    /\ \E w \in LogStreams :
         /\ fn.number[w] > 0
         /\ fn' = [fn EXCEPT !.lock = "free", !.number[w] = 0, !.todo[w] = @ - 1,
                             !.LogChannel = Append(@,
                                 [CmdID |-> fn.CmdID, Number |-> fn.number[w],
                                  stream |-> w])]
    /\ UNCHANGED executorVars

NextLog == writeLogNumber \/ writeLogSend

SpecLog == InitLog /\ [][NextLog]_vars

---------------------------------------------------------------------------
(* The image reference of pullImage, computed on its own over bounded      *)
(* image strings.                                                          *)

MaxImageLen == 4

\* The characters of an image string that matter: a name character, the
\* path separator and the tag separator.
ImageChars == {"u", "/", ":"}

Images == SeqsUpTo(ImageChars, MaxImageLen)

DockerIoLibrary == <<"d", "o", "c", "k", "e", "r", ".", "i", "o", "/", "l", "i", "b", "r", "a", "r", "y", "/">>

DockerIo == <<"d", "o", "c", "k", "e", "r", ".", "i", "o", "/">>

\* strings.Contains(str, sub) for a substring of one character
Contains(str, sub) == \E i \in 1..Len(str) : str[i] = sub

\* Mutant: the reference is always put under docker.io/library/.
pullImageFullRef_libraryAlways(image) == DockerIoLibrary \o image

\* pullImage: fullRef := "docker.io/library/" + image, or "docker.io/" +
\* image when the image contains "/".
pullImageFullRef(image) ==
    IF Contains(image, "/") THEN DockerIo \o image ELSE DockerIoLibrary \o image

\* d.containerConfig.Image of some command.
InitImage ==
    /\ NoExecutor
    /\ \E image \in Images :
         fn = [op |-> "pullImage", Image |-> image, pulled |-> FALSE,
               fullRef |-> <<>>]

\* pullImage up to the ImagePull call: the reference it is called with.
pullImageRef ==
    /\ fn.op = "pullImage"
    /\ ~fn.pulled
    /\ fn' = [fn EXCEPT !.pulled = TRUE, !.fullRef = pullImageFullRef(fn.Image)]
    /\ UNCHANGED executorVars

NextImage == pullImageRef

SpecImage == InitImage /\ [][NextImage]_vars

---------------------------------------------------------------------------
(* The config Manager (config/manager.go): the singleton and its Init,     *)
(* called any number of times against a server and a message bus that may  *)
(* fail.  A nil pointer is the empty sequence, a set one a sequence of     *)
(* one element.                                                            *)

MaxInits == 3

\* Agent ids the server may return in its settings.
AgentIDs == {"1", "2"}

\* initSettings' failures: the request fails, the body is not JSON, the
\* response is not ok.
errSettingConnectFail == "Cannot get settings from server"
SettingsErrors == {errSettingConnectFail, "errFromJSON", "message.Message"}

\* GetInstance: the new Manager.
InitManager ==
    /\ NoExecutor
    /\ fn = [op |-> "Manager", Settings |-> <<>>, Queue |-> <<>>,
             IsOffline |-> FALSE, inits |-> 0, reply |-> "none",
             out |-> "unset", dials |-> 0]

\* HasQueue: m.Queue != nil
HasQueue == fn.Queue # <<>>

\* initRabbitMQ with the bus answering q: without settings an error; Dial
\* or Channel may fail; otherwise the queue config is stored (the errors of
\* the two QueueDeclare calls are not looked at).
initRabbitMQ(m, q) ==
    IF m.Settings = <<>>
    THEN [m EXCEPT !.out = "ErrSettingsNotBeenLoaded"]
    ELSE IF q = "Dial"
    THEN [m EXCEPT !.out = "Dial"]
    ELSE IF q = "Channel"
    THEN [m EXCEPT !.out = "Channel", !.dials = @ + 1]
    ELSE [m EXCEPT !.out = "nil", !.dials = @ + 1,
                   !.Queue = <<[Conn |-> m.dials + 1, Channel |-> m.dials + 1]>>]

\* Manager.Init: initSettings, on its error go offline and return it;
\* otherwise initRabbitMQ and return its error.
ManagerInit ==
    /\ fn.op = "Manager"
    /\ fn.inits < MaxInits
    /\ \E reply \in SettingsErrors \cup AgentIDs, q \in {"Dial", "Channel", "nil"} :
         LET m == [fn EXCEPT !.inits = @ + 1, !.reply = reply]
         IN  IF reply \in SettingsErrors
             THEN fn' = [m EXCEPT !.IsOffline = TRUE, !.out = reply]
             ELSE fn' = initRabbitMQ([m EXCEPT !.Settings = <<reply>>], q)
    /\ UNCHANGED executorVars

NextManager == ManagerInit

SpecManager == InitManager /\ [][NextManager]_vars

---------------------------------------------------------------------------
(* Properties *)

StartReturned == pc = "done"

\* C1: in every run of Start, whatever the interleaving of the session's
\* exit, cancellation, deadline and runtime errors, a terminal status is
\* written at most once, the result is terminal exactly when it was written
\* once, and a Start that has returned has written one.
C1_TerminalStatusOnce ==
    /\ h.nTerminal <= 1
    /\ IsFinishStatus(res) <=> h.nTerminal = 1
    /\ StartReturned => IsFinishStatus(res)

\* C1 witness: Start returned after both a natural exit of the session and a
\* cancellation of the job had happened.
C1_Witness ==
    /\ StartReturned
    /\ h.nTerminal = 1
    /\ exec.state = "exited"
    /\ job = "canceled"

\* C2: finishAt is set before the terminal status is written and the status
\* before the log channel is closed; the channel is closed at most once, once
\* when Start has returned, and no log item is emitted after the close.
C2_FinishStatusCloseOrder ==
    /\ IsFinishStatus(res) => (0 < res.finishAt /\ res.finishAt < res.statusAt)
    /\ log.closed => (IsFinishStatus(res) /\ res.statusAt < h.closedAt)
    /\ h.closes <= 1
    /\ log.closed <=> h.closes = 1
    /\ StartReturned => log.closed
    /\ ~h.late
    /\ log.closed => log.writers = {}

\* C2 witness: Start returned on the cancellation path with the channel
\* closed after a log item was emitted.
C2_Witness ==
    /\ StartReturned
    /\ res.status = CmdStatusKilled
    /\ log.closed
    /\ log.count > 0

\* C3: once the result holds a terminal status, no later step or signal
\* changes its status, code or finishAt.
C3_FirstSignalWins ==
    [][IsFinishStatus(res) =>
          /\ res'.status = res.status
          /\ res'.code = res.code
          /\ res'.finishAt = res.finishAt]_vars

\* C3 witness: a kill and the session's natural exit both arrived after the
\* terminal status, and Start returned.
C3_Witness ==
    /\ StartReturned
    /\ h.after = {"kill", "exit"}

\* C4 (as claimed): when a runtime call of Start fails because the job was
\* cancelled the status becomes Killed, when it fails because the deadline
\* passed the status becomes Timeout, and Start returns nil.
C4_ContextErrorToStatus ==
    (IsFinishStatus(res) /\ h.seen # "nil") =>
        /\ h.seen = Canceled => res.status = CmdStatusKilled
        /\ h.seen = DeadlineExceeded => res.status = CmdStatusTimeout
        /\ local.out = "nil"

C5_WitnessNotFound ==
    /\ res.status = CmdStatusException
    /\ res.code = CmdNotFound

\* C6 (as claimed): a Start that returned a non-nil error published no
\* terminal status, and a Start that recorded Exception, Timeout or Killed
\* returned nil.
C6_ErrorOrStatus ==
    StartReturned =>
        /\ local.out # "nil" => ~IsFinishStatus(res)
        /\ res.status \in {CmdStatusException, CmdStatusTimeout, CmdStatusKilled}
              => local.out = "nil"

\* C7: once the deferred function has handled a panic whose error is neither
\* cancel nor deadline, the status is Exception and the error's message is
\* recorded; every panic of the body is recovered there.
C7_RuntimeErrorToException ==
    (local.err \notin {"nil", Canceled, DeadlineExceeded} /\ pc # "recover") =>
        /\ res.status = CmdStatusException
        /\ res.error = local.err
        /\ pc \in {"cleanupContainer", "closeChannels", "done"}

\* C7 witness: a failed image pull ended as Exception with its message.
C7_Witness ==
    /\ res.status = CmdStatusException
    /\ res.error = "ImagePull"

\* The cleanup calls the policy asks for, on the executor's container.
CleanupPolicy ==
    IF inCmd.IsDeleteContainer THEN <<[op |-> "remove", id |-> d.containerId]>>
    ELSE IF inCmd.IsStopContainer THEN <<[op |-> "stop", id |-> d.containerId]>>
    ELSE <<>>

CleanupIssued(hh) == [i \in DOMAIN hh.cleanup |-> [op |-> hh.cleanup[i].op, id |-> hh.cleanup[i].id]]

\* C8: the cleanup step of every exit path issues exactly the call the
\* policy asks for (remove when deleteOnExit, else stop when stopOnExit, else
\* none) on the container the exec session used, none was issued before, and
\* the step changes neither status nor code and leaves the job volume.
C8_CleanupPolicy ==
    [][(pc = "cleanupContainer" /\ pc' # pc) =>
          /\ h.cleanup = <<>>
          /\ CleanupIssued(h') = CleanupPolicy
          /\ exec.cid # NoContainer => exec.cid = d.containerId
          /\ res'.status = res.status
          /\ res'.code = res.code
          /\ volumes' = volumes]_vars

\* C8 witness: with both flags set, a killed job's container was removed and
\* not stopped.
C8_Witness ==
    /\ inCmd.IsDeleteContainer /\ inCmd.IsStopContainer
    /\ res.status = CmdStatusKilled
    /\ Len(h.cleanup) = 1
    /\ h.cleanup[1].op = "remove"
    /\ h.cleanup[1].id \in NewIds
    /\ containers[h.cleanup[1].id] = "absent"

\* C9 (as claimed): after a cancellation or deadline expiry every cleanup
\* call is issued with a context that has not ended.
C9_CleanupContextFresh ==
    \A i \in DOMAIN h.cleanup : h.cleanup[i].ctx = "nil"

\* C10: the containerId of the result is the executor's container, the one
\* the exec session ran in; it is the hint exactly when the hinted container
\* was inspected as exited and restarted, and then nothing was created;
\* otherwise it is the id of a container this Start created.
C10_ContainerIdUsed ==
    /\ res.containerId = d.containerId
    /\ exec.cid # NoContainer => exec.cid = res.containerId
    /\ res.containerId = HintId <=> h.resumed
    /\ h.resumed => (inCmd.ContainerId = HintId /\ h.inspected = "exited" /\ h.created = {})
    /\ (res.containerId # NoContainer /\ ~h.resumed) => res.containerId \in h.created
    /\ (exec.cid # NoContainer /\ ~h.resumed) => exec.cid \in h.created

\* C10 witness: the hint was exited but its restart failed, and the session
\* ran in a newly created container.
C10_Witness ==
    /\ inCmd.ContainerId = HintId
    /\ h.inspected = "exited"
    /\ ~h.resumed
    /\ exec.cid \in NewIds
    /\ res.containerId = exec.cid

\* C10 witness of the resume case: the session ran in the hinted container.
C10_WitnessResumed ==
    /\ h.resumed
    /\ exec.cid = HintId
    /\ res.containerId = HintId

\* C11 (as claimed): when the hinted container exists but cannot be reused
\* (inspected with a status other than exited, or its restart failed), a
\* force-remove of it is issued before the fresh container is created.
C11_StaleHintRemoved ==
    (/\ inCmd.ContainerId = HintId
     /\ h.inspected \in {"running", "exited"}
     /\ ~h.resumed
     /\ pc \notin {"tryToResume", "ContainerRestart", "ContainerRemove"})
        => HintId \in h.removeCalls

\* C12 (as claimed): an unexpected error of the hinted container's inspection
\* never becomes the job's recorded error; the job is not ended with
\* Exception by it.
C12_InspectErrorNotFatal ==
    ~(res.status = CmdStatusException /\ res.error = "ContainerInspect")

\* C13 (as claimed): no log item is emitted before the Pending -> Running
\* transition has set startAt.
C13_RunningBeforeLog ==
    log.count > 0 => (res.startAt > 0 /\ res.processId > 0)

C15_KilledWhileRunning ==
    (IsFinishStatus(res) /\ h.seen = Canceled /\ res.startAt > 0) =>
        res.status = CmdStatusKilled

\* C18 (as claimed): a Start that resumed the hinted container has pulled no
\* image and created no container; on the fresh path the image is pulled
\* before the container is created.
C18_PullOnlyOnFreshPath ==
    /\ h.resumed => (h.pulls = 0 /\ h.created = {})
    /\ h.created # {} => h.pulls > 0

\* C19: the exec session is created only in the executor's container, which
\* is running (resumed or created and started by this Start), and after the
\* plugin copy when there is a plugin dir; the env dump is copied out only
\* after the session was seen not running; on the path without a panic the
\* cleanup step runs only after the env-dump copy was attempted.
C19_LifecycleOrder ==
    [][/\ (exec.state = "none" /\ exec'.state # "none") =>
             /\ exec'.cid = d.containerId
             /\ d.containerId # NoContainer
             /\ containers[d.containerId] = "running"
             /\ h.resumed \/ d.containerId \in h.created
             /\ inCmd.hasPluginDir => h.copied
       /\ (~h.exported /\ h'.exported) =>
             /\ exec.state = "exited"
             /\ local.exitCode = exec.code
             /\ h.cleanup = <<>>
       /\ (pc = "cleanupContainer" /\ pc' # pc /\ local.err = "nil") =>
             h.exported]_vars

\* C19 witness: with a plugin dir, the plugins were copied, the session ran
\* and exited, the env dump was copied and the container then removed.
C19_Witness ==
    /\ inCmd.hasPluginDir /\ h.copied
    /\ exec.state = "exited"
    /\ h.exported /\ res.output
    /\ local.err = "nil"
    /\ Len(h.cleanup) = 1
    /\ StartReturned

\* C20 (as claimed): after a successful Init the job volume exists and is
\* the executor's flowVolume, and a volume-create call was issued exactly
\* when no volume of that name existed before, whatever else the
\* name-filtered list returned.
C20_JobVolumeCreatedIffAbsent ==
    pc \notin {"Init", "initJobVolume", "initConfig", "InitFailed"} =>
        /\ volumes.job
        /\ d.flowVolume = "job"
        /\ h.volumeCreates <= 1
        /\ h.volumeCreates = 1 <=> ~h.hadJobVolume

\* C16: for every env dump and every envFilters list, a variable is in the
\* output exactly when a line NAME=... of the dump defines it and either the
\* list is empty or its name starts with one of the prefixes; each name
\* occurs once; with the filter FLOW_ and the test's dump, FLOW_VVV=flowci
\* and FLOW_AAA=flow... are captured and INPUT_VAR is not.
C16_EnvFilter ==
    fn.copied =>
        LET Names == UNION {{SubSeq(l, 1, n) : n \in 0..Len(l)} : l \in EnvLines}
            Defines(l, k) ==
                /\ Len(l) > Len(k)
                /\ l[Len(k) + 1] = "="
                /\ \A j \in 1..Len(k) : l[j] = k[j] /\ k[j] # "="
            Defined(k) == \E i \in DOMAIN fn.reader : Defines(fn.reader[i], k)
            StartsWith(k, p) ==
                Len(p) <= Len(k) /\ \A j \in 1..Len(p) : k[j] = p[j]
            Wanted(k) ==
                \/ fn.EnvFilters = <<>>
                \/ \E i \in DOMAIN fn.EnvFilters : StartsWith(k, fn.EnvFilters[i])
            flow == <<"F", "L", "O", "W", "_">>
            vvv == <<"F", "L", "O", "W", "_", "V", "V", "V">>
            aaa == <<"F", "L", "O", "W", "_", "A", "A", "A">>
            input == <<"I", "N", "P", "U", "T", "_", "V", "A", "R">>
        IN  /\ \A kv \in fn.Output : kv[1] \in Names
            /\ \A k \in Names :
                 (\E kv \in fn.Output : kv[1] = k) <=> (Defined(k) /\ Wanted(k))
            /\ \A a, b \in fn.Output : a[1] = b[1] => a = b
            /\ (fn.EnvFilters = <<flow>> /\ Defined(vvv) /\ Defined(aaa) /\ Defined(input)) =>
                 /\ <<vvv, <<"f", "l", "o", "w", "c", "i">>>> \in fn.Output
                 /\ <<aaa, <<"f", "l", "o", "w", ".", ".", ".">>>> \in fn.Output
                 /\ \A kv \in fn.Output : kv[1] # input

\* C16 witness: the test's dump read with the filter FLOW_ gave the two
\* FLOW_ variables and nothing else.
C16_Witness ==
    /\ fn.copied
    /\ fn.EnvFilters = <<<<"F", "L", "O", "W", "_">>>>
    /\ Len(fn.reader) = 3
    /\ \E i \in DOMAIN fn.reader : HasPrefix(fn.reader[i], <<"I", "N", "P", "U", "T", "_", "V", "A", "R", "=">>)
    /\ fn.Output =
          {<<<<"F", "L", "O", "W", "_", "V", "V", "V">>, <<"f", "l", "o", "w", "c", "i">>>>,
           <<<<"F", "L", "O", "W", "_", "A", "A", "A">>, <<"f", "l", "o", "w", ".", ".", ".">>>>}

StartEntered == pc \notin {"Init", "initJobVolume", "initConfig", "InitFailed", "Start"}

\* C21 (as claimed): under fair scheduling, once Start runs and the exec
\* session has stopped running, or the job was cancelled, or its deadline
\* has passed, Start eventually returns with a terminal status written and
\* the log channel closed.
C21_StartTerminates ==
    (StartEntered /\ (exec.state \in {"exited", "killed"} \/ job # "live"))
        ~> (StartReturned /\ IsFinishStatus(res) /\ log.closed)

\* C23 (as claimed): when Start's deferred function reaches closeChannels,
\* the wait-group count equals the number of log writers that were started
\* and have not finished, so the wait can end.
C23_WaitGroupMatched ==
    pc = "closeChannels" => d.stdOutWg = Cardinality(log.writers)

\* C22: for every image string, the reference pulled ends with the image
\* string unchanged, and what precedes it is docker.io/ when the image has a
\* "/" in it and docker.io/library/ when it has none.
C22_ImageReference ==
    fn.pulled =>
        LET image == fn.Image
            ref == fn.fullRef
            n == Len(ref) - Len(image)
            slash == \E i \in DOMAIN image : image[i] = "/"
        IN  /\ n >= 0
            /\ \A i \in DOMAIN image : ref[n + i] = image[i]
            /\ slash => SubSeq(ref, 1, n) = <<"d", "o", "c", "k", "e", "r", ".", "i", "o", "/">>
            /\ ~slash => SubSeq(ref, 1, n) = <<"d", "o", "c", "k", "e", "r", ".", "i", "o", "/", "l", "i", "b", "r", "a", "r", "y", "/">>

\* C22 witness: an image with a path and a tag was pulled under docker.io/.
C22_Witness ==
    /\ fn.pulled
    /\ fn.Image = <<"u", "/", "u", ":">>
    /\ fn.fullRef = <<"d", "o", "c", "k", "e", "r", ".", "i", "o", "/">> \o <<"u", "/", "u", ":">>

\* C22 witness of the other case: an image without a path was pulled under
\* docker.io/library/.
C22_WitnessLibrary ==
    /\ fn.pulled
    /\ fn.Image = <<"u", ":", "u">>
    /\ Len(fn.fullRef) = Len(DockerIoLibrary) + Len(fn.Image)
    /\ HasPrefix(fn.fullRef, DockerIoLibrary)

\* C24 (as claimed): after any sequence of Init calls, HasQueue holds only
\* if settings were loaded and the connection and the channel were opened;
\* when the last Init's settings retrieval failed it returned an error,
\* IsOffline is true and Queue is nil; when it succeeded Settings is non-nil
\* and is the data the server returned.
C24_ManagerInit ==
    fn.inits > 0 =>
        /\ HasQueue =>
              /\ fn.Settings # <<>>
              /\ fn.Queue[1].Conn > 0 /\ fn.Queue[1].Channel > 0
        /\ fn.reply \in SettingsErrors =>
              (fn.out # "nil" /\ fn.IsOffline /\ fn.Queue = <<>>)
        /\ fn.reply \in AgentIDs => fn.Settings = <<fn.reply>>

=============================================================================
